---------------------------- MODULE Spec2Model ----------------------------
(*
  Model of the dynamic request dispatcher (controllers/dynamicController.js,
  kept in src/unnamed/part_000): handleRequest resolves the endpoint of
  (user_id, endpoint_name), reads its field list and runs handleRead,
  handleCreate, handleUpdate or handleDelete against the data_storage table.

  A handler that issues one data_storage statement is one action.
  handleUpdate issues two (SELECT, then UPDATE) with an await between them,
  so it is two actions and other requests may run in between.

  Every storage call of Spec succeeds.
*)
EXTENDS Integers, Sequences, FiniteSets, TLC

(***************************************************************************)
(* Bounds                                                                  *)
(***************************************************************************)
\* data_storage rows ever inserted (AUTO_INCREMENT values handed out)
MaxDocs == 2
\* PUT requests that may be between their SELECT and their UPDATE
MaxInflight == 1
\* the same, in the specification of concurrent PUT requests (SpecConcurrent)
MaxConcurrent == 2
\* requests in progress at a time in the specification of one request's
\* statements (SpecRequest)
MaxRequests == 2
\* rows ever inserted into table api_endpoints and into table fields, and
\* administrative handlers between two statements (SpecAdmin)
MaxEndpoints == 2
MaxFields == 2
MaxAdminCalls == 1

(***************************************************************************)
(* JavaScript values.  t is the typeof-like tag; s the text of a string,   *)
(* n a number in tenths (30 is 300, 3.5 is 35), b a boolean.               *)
(***************************************************************************)
Undefined == [t |-> "undefined", s |-> "", n |-> 0, b |-> FALSE]
Null == [t |-> "null", s |-> "", n |-> 0, b |-> FALSE]
Str(x) == [t |-> "string", s |-> x, n |-> 0, b |-> FALSE]
Num(x) == [t |-> "number", s |-> "", n |-> x, b |-> FALSE]
Bool(x) == [t |-> "boolean", s |-> "", n |-> 0, b |-> x]
NaN == [t |-> "number", s |-> "NaN", n |-> 0, b |-> FALSE]

\* obj[key] of a JavaScript object: undefined for a key it does not have
Get(obj, key) == IF key \in DOMAIN obj THEN obj[key] ELSE Undefined
\* obj[key] = value
Put(obj, key, value) ==
  [k \in DOMAIN obj \cup {key} |-> IF k = key THEN value ELSE obj[k]]
EmptyObject == [k \in {} |-> Undefined]

\* The decimal literals the model reads and writes, with their value in tenths
DecimalLiterals ==
  { <<"0", 0>>, <<"1", 10>>, <<"2", 20>>, <<"3", 30>>, <<"30", 300>>,
    <<"3.5", 35>> }

\* String to number as Number(string) does it: "" is 0, a decimal literal is
\* its value, any other text is NaN
StringToNumber(x) ==
  IF x = "" THEN Num(0)
  ELSE IF \E d \in DecimalLiterals : d[1] = x
       THEN Num((CHOOSE d \in DecimalLiterals : d[1] = x)[2])
       ELSE NaN

\* Number(value)
ToNumber(value) ==
  CASE value.t = "number" -> value
    [] value.t = "string" -> StringToNumber(value.s)
    [] value.t = "boolean" -> IF value.b THEN Num(10) ELSE Num(0)
    [] value.t = "null" -> Num(0)
    [] OTHER -> NaN

IsNaN(x) == x = NaN
\* Number.isInteger(x) of a number x
NumberIsInteger(x) == x.t = "number" /\ ~IsNaN(x) /\ x.n % 10 = 0

\* parseFloat(value): the leading decimal literal of String(value).  Of the
\* values modelled, the ones whose text begins with a number are the numbers
\* and the decimal literal strings.
ParseFloat(value) ==
  CASE value.t = "number" -> value
    [] value.t = "string" /\ value.s # "" -> StringToNumber(value.s)
    [] OTHER -> NaN

\* Date.parse(value) is a number (not NaN): of the values modelled, for the
\* ISO date strings
IsoDates == {"2024-01-15"}
DateParses(value) == value.t = "string" /\ value.s \in IsoDates

\* data_type.toUpperCase() for the type tags of the field table
ToUpperCase(x) ==
  CASE x = "int" -> "INT"
    [] x = "boolean" -> "BOOLEAN"
    [] x = "varchar" -> "VARCHAR"
    [] x = "text" -> "TEXT"
    [] x = "get" -> "GET"
    [] OTHER -> x

validateDataType(value, data_type) ==
  LET ty == ToUpperCase(data_type) IN
  CASE ty = "INT" -> NumberIsInteger(ToNumber(value))
    [] ty = "FLOAT" -> ~IsNaN(ParseFloat(value))
    [] ty \in {"VARCHAR", "TEXT"} -> value.t = "string"
    [] ty = "BOOLEAN" ->
         value = Str("true") \/ value = Str("false") \/ value.t = "boolean"
    [] ty \in {"DATE", "DATETIME"} -> DateParses(value)
    [] OTHER -> FALSE

(***************************************************************************)
(* JSON text of a document.  The text of an object is modelled as its      *)
(* members: key |-> token, a token being the member's text, quoted for a   *)
(* string and bare for a number, a boolean or null.                        *)
(***************************************************************************)
NumberText(x) ==
  IF \E d \in DecimalLiterals : d[2] = x.n
  THEN (CHOOSE d \in DecimalLiterals : d[2] = x.n)[1]
  ELSE "null"

JSONToken(value) ==
  CASE value.t = "string" -> [quoted |-> TRUE, text |-> value.s]
    [] value.t = "number" ->
         [quoted |-> FALSE, text |-> IF IsNaN(value) THEN "null" ELSE NumberText(value)]
    [] value.t = "boolean" ->
         [quoted |-> FALSE, text |-> IF value.b THEN "true" ELSE "false"]
    [] OTHER -> [quoted |-> FALSE, text |-> "null"]

\* JSON.stringify(obj): members whose value is undefined are left out
JSONStringify(obj) ==
  [k \in {j \in DOMAIN obj : obj[j].t # "undefined"} |-> JSONToken(obj[k])]

JSONValue(token) ==
  IF token.quoted THEN Str(token.text)
  ELSE CASE token.text = "null" -> Null
         [] token.text = "true" -> Bool(TRUE)
         [] token.text = "false" -> Bool(FALSE)
         [] OTHER -> StringToNumber(token.text)

\* JSON.parse(text)
JSONParse(text) == [k \in DOMAIN text |-> JSONValue(text[k])]

(***************************************************************************)
(* The schema registry: tables api_endpoints and fields.  The dispatcher   *)
(* only reads them.                                                        *)
(***************************************************************************)
api_endpoints ==
  { [endpoint_id |-> 1, user_id |-> 1, endpoint_name |-> "X", http_method |-> "GET"],
    [endpoint_id |-> 2, user_id |-> 1, endpoint_name |-> "Y", http_method |-> "POST"],
    [endpoint_id |-> 3, user_id |-> 2, endpoint_name |-> "X", http_method |-> "DELETE"],
    [endpoint_id |-> 4, user_id |-> 2, endpoint_name |-> "W", http_method |-> "PUT"] }

\* rows of table fields, in the order a SELECT returns them
fields ==
  << [endpoint_id |-> 1, field_name |-> "a", data_type |-> "INT",
      is_required |-> TRUE, default_value |-> Null],
     [endpoint_id |-> 1, field_name |-> "b", data_type |-> "VARCHAR",
      is_required |-> TRUE, default_value |-> Null],
     [endpoint_id |-> 2, field_name |-> "a", data_type |-> "BOOLEAN",
      is_required |-> FALSE, default_value |-> Str("active")],
     [endpoint_id |-> 2, field_name |-> "b", data_type |-> "UUID",
      is_required |-> FALSE, default_value |-> Null],
     [endpoint_id |-> 3, field_name |-> "a", data_type |-> "varchar",
      is_required |-> TRUE, default_value |-> Str("active")],
     [endpoint_id |-> 4, field_name |-> "data_id", data_type |-> "INT",
      is_required |-> FALSE, default_value |-> Null] >>

\* (mutant) the lookup without its user_id condition
SelectEndpointsAnyUser(endpoint_name, user_id) ==
  {e \in api_endpoints : e.endpoint_name = endpoint_name}

\* SELECT * FROM api_endpoints WHERE endpoint_name = ? AND user_id = ?
SelectEndpoints(endpoint_name, user_id) ==
  {e \in api_endpoints : e.endpoint_name = endpoint_name /\ e.user_id = user_id}

\* SELECT * FROM fields WHERE endpoint_id = ?
SelectFields(endpoint_id) ==
  SelectSeq(fields, LAMBDA f : f.endpoint_id = endpoint_id)


(***************************************************************************)
(* Requests and responses                                                  *)
(***************************************************************************)
Users == {1, 2}
Names == {"X", "Y", "Z"}
Methods == {"GET", "POST", "PUT", "DELETE", "PATCH"}
\* the keys of a request body, and the values a body gives each; Undefined
\* stands for a key the body lacks
BodyKeys == {"a", "b"}
BodyValues(key) ==
  IF key = "a" THEN {Undefined, Null, Str(""), Str("30"), Str("true")}
  ELSE {Undefined, Str("30"), Str("true")}
\* req.query.id as the query string gives it: absent, or the text of a number
IdLiterals == <<"1", "2", "3", "4">>
QueryIds == {Undefined} \cup {Str(IdLiterals[i]) : i \in 1..MaxDocs}

BodyOf(f) == [k \in {j \in DOMAIN f : f[j] # Undefined} |-> f[k]]
Bodies ==
  {BodyOf(f) : f \in {g \in [BodyKeys -> UNION {BodyValues(k) : k \in BodyKeys}] :
                        \A k \in BodyKeys : g[k] \in BodyValues(k)}}

Request(user_id, endpoint_name, method, id, body) ==
  [user_id |-> user_id, endpoint_name |-> endpoint_name, method |-> method,
   id |-> id, body |-> body]

\* The requests of the HTTP surface without a body: an id with PUT and DELETE
BareRequests(u, n) ==
  UNION { { Request(u, n, m, i, EmptyObject)
            : i \in IF m \in {"PUT", "DELETE"} THEN QueryIds ELSE {Undefined} }
          : m \in Methods }

\* POST and PUT with a body.  A PUT without an id is answered before its body
\* is read.
BodyRequests(u, n) ==
  {Request(u, n, "POST", Undefined, d) : d \in Bodies}
    \cup {Request(u, n, "PUT", i, d) : i \in QueryIds \ {Undefined}, d \in Bodies}

\* The requests the model sends.  A request for a name its user has no
\* endpoint of is answered before its body is read.
Requests ==
  UNION { BareRequests(t[1], t[2])
            \cup IF SelectEndpoints(t[2], t[1]) = {} THEN {}
                 ELSE BodyRequests(t[1], t[2])
          : t \in Users \X Names }

\* message texts of the responses; field and expected fill the two templates
Message(text) == [text |-> text, field |-> "", expected |-> ""]
FieldRequired(field_name) ==
  [text |-> "Field is required.", field |-> field_name, expected |-> ""]
InvalidDataType(field_name, data_type) ==
  [text |-> "Invalid data type for field.", field |-> field_name,
   expected |-> data_type]

\* A response with its request; before is history, table data_storage as the
\* step that sent the response found it
Response(req, status, message, rows, before) ==
  [req |-> req, status |-> status, message |-> message, rows |-> rows,
   before |-> before]
NoRequest == Request(0, "", "", Undefined, EmptyObject)
NoTable == [i \in {} |-> [endpoint_id |-> 0, data |-> EmptyObject]]
NoRows == [i \in {} |-> EmptyObject]
NoResponse == Response(NoRequest, 0, Message(""), NoRows, NoTable)

\* A request in progress (see SpecRequest): state is its state in the
\* dispatcher's state machine, at the storage call it is to make next;
\* sent counts its responses and status is the status sent.  History:
\* visited, the states it has entered, and failed, the storage call that
\* failed.
NoSlot ==
  [req |-> NoRequest, state |-> "Free", at |-> "", sent |-> 0, status |-> 0,
   visited |-> <<>>, failed |-> ""]
Slots == 1..MaxRequests
NoRequests == [s \in Slots |-> NoSlot]

\* Tables api_endpoints and fields as the administrative API finds them
\* before any endpoint is declared (see SpecAdmin): insertId is the
\* AUTO_INCREMENT value each table gives next, calls the handlers between
\* two statements, last the response on display.
NoAdminRequest ==
  [user_id |-> 0, op |-> "", id |-> 0, fieldId |-> 0, endpoint_name |-> "",
   http_method |-> "", fields |-> <<>>, field_name |-> "", data_type |-> "",
   is_required |-> Undefined]
NoAdminResponse ==
  [req |-> NoAdminRequest, status |-> 0, message |-> "", rows |-> {},
   before |-> [api_endpoints |-> {}, fields |-> {}]]
NoAdmin ==
  [api_endpoints |-> {}, fields |-> {},
   insertId |-> [api_endpoints |-> 1, fields |-> 1],
   calls |-> {}, last |-> NoAdminResponse]

\* no call of validateDataType (see SpecValidate)
NoCall ==
  [op |-> "", value |-> Undefined, data_type |-> "", state |-> "",
   accepted |-> FALSE, status |-> 0]

VARIABLES
  data_storage,   \* table data_storage: data_id |-> [endpoint_id, data]
  auto_increment, \* the data_id the next INSERT gets
  updating,       \* handleUpdate calls between their SELECT and their UPDATE
  last,           \* the response on display, with its request
  deleted,        \* history: <<endpoint_id, data_id>> of every DELETE answered 200
  call,           \* SpecValidate: one call of validateDataType and its result
  requests,       \* SpecRequest: the requests in progress, statement by statement
  admin           \* SpecAdmin: tables api_endpoints and fields under the
                  \* administrative API, its calls in progress and last response

vars ==
  <<data_storage, auto_increment, updating, last, deleted, call, requests, admin>>

Init ==
  /\ data_storage = NoTable
  /\ auto_increment = 1
  /\ updating = {}
  /\ last = NoResponse
  /\ deleted = {}
  /\ call = NoCall
  /\ requests = NoRequests
  /\ admin = NoAdmin

(***************************************************************************)
(* Statements on table data_storage                                        *)
(***************************************************************************)
\* data_id = ? with the id text of the query string, compared as a number
IdMatches(data_id, identifier) == ToNumber(identifier) = Num(data_id * 10)

\* (mutant) an INSERT that gives the row the lowest data_id not in the table
InsertDataLowestFree(table, data_id, endpoint_id, data) ==
  LET free == CHOOSE i \in 1..data_id :
                i \notin DOMAIN table /\ \A j \in 1..(i - 1) : j \in DOMAIN table
  IN [i \in DOMAIN table \cup {free} |->
        IF i = free THEN [endpoint_id |-> endpoint_id, data |-> data]
        ELSE table[i]]

\* INSERT INTO data_storage (endpoint_id, data) VALUES (?, ?)
InsertData(table, data_id, endpoint_id, data) ==
  [i \in DOMAIN table \cup {data_id} |->
     IF i = data_id THEN [endpoint_id |-> endpoint_id, data |-> data]
     ELSE table[i]]

\* (mutant) the SELECT without its WHERE clause
SelectEveryEndpoint(table, endpoint_id) == DOMAIN table

\* SELECT data_id, data FROM data_storage WHERE endpoint_id = ?
SelectByEndpoint(table, endpoint_id) ==
  {i \in DOMAIN table : table[i].endpoint_id = endpoint_id}

\* (mutant) the row condition without its endpoint_id part
SelectByIdAnyEndpoint(table, identifier, endpoint_id) ==
  {i \in DOMAIN table : IdMatches(i, identifier)}

\* ... WHERE data_id = ? AND endpoint_id = ?
SelectById(table, identifier, endpoint_id) ==
  {i \in DOMAIN table :
     IdMatches(i, identifier) /\ table[i].endpoint_id = endpoint_id}

\* (mutant) an UPDATE that inserts the row when no row has the id
UpdateDataUpsert(table, data, identifier, endpoint_id) ==
  [i \in DOMAIN table \cup {j \in 1..MaxDocs : IdMatches(j, identifier)} |->
     IF IdMatches(i, identifier) /\ (i \in DOMAIN table => table[i].endpoint_id = endpoint_id)
     THEN [endpoint_id |-> endpoint_id, data |-> data]
     ELSE table[i]]

\* UPDATE data_storage SET data = ? WHERE data_id = ? AND endpoint_id = ?
UpdateData(table, data, identifier, endpoint_id) ==
  [i \in DOMAIN table |->
     IF i \in SelectById(table, identifier, endpoint_id)
     THEN [table[i] EXCEPT !.data = data]
     ELSE table[i]]

\* DELETE FROM data_storage WHERE data_id = ? AND endpoint_id = ?
DeleteData(table, identifier, endpoint_id) ==
  [i \in DOMAIN table \ SelectById(table, identifier, endpoint_id) |-> table[i]]

(***************************************************************************)
(* handleRequest: resolution and the switch on the verb                    *)
(***************************************************************************)
\* endpoints.length === 0
Unresolved(req) == SelectEndpoints(req.endpoint_name, req.user_id) = {}
\* endpoints[0]
Endpoint(req) ==
  CHOOSE e \in SelectEndpoints(req.endpoint_name, req.user_id) : TRUE

\* (mutant) the switch on the method the endpoint declares
OperationDeclared(http_method, endpoint) ==
  CASE http_method \notin {"GET", "POST", "PUT", "DELETE"} -> "default"
    [] endpoint.http_method = "GET" -> "handleRead"
    [] endpoint.http_method = "POST" -> "handleCreate"
    [] endpoint.http_method = "PUT" -> "handleUpdate"
    [] endpoint.http_method = "DELETE" -> "handleDelete"
    [] OTHER -> "default"

\* switch (http_method): the handler that runs for a resolved endpoint
Operation(http_method, endpoint) ==
  CASE http_method = "GET" -> "handleRead"
    [] http_method = "POST" -> "handleCreate"
    [] http_method = "PUT" -> "handleUpdate"
    [] http_method = "DELETE" -> "handleDelete"
    [] OTHER -> "default"

Runs(req, handler) ==
  /\ ~Unresolved(req)
  /\ Operation(req.method, Endpoint(req)) = handler

\* (mutant) identifier === null
FalsyNullOnly(value) == value.t = "null"

\* !identifier
Falsy(value) ==
  \/ value.t \in {"undefined", "null"}
  \/ value = Str("")
  \/ value = Bool(FALSE)
  \/ value = Num(0)
  \/ IsNaN(value)

Respond(req, status, message) ==
  last' = Response(req, status, message, NoRows, data_storage)

\* No response is on display: the client has taken the last one (see Taken)
Idle == last = NoResponse

\* endpoints.length === 0: 404 before the verb is looked at
NotFound(req) ==
  /\ Unresolved(req)
  /\ Respond(req, 404, Message("API endpoint not found."))
  /\ UNCHANGED <<data_storage, auto_increment, updating, deleted>>

\* default: of the switch
MethodNotAllowed(req) ==
  /\ Runs(req, "default")
  /\ Respond(req, 405, Message("Method Not Allowed"))
  /\ UNCHANGED <<data_storage, auto_increment, updating, deleted>>

(***************************************************************************)
(* handleCreate                                                            *)
(***************************************************************************)
\* value === undefined || value === null || value === ''
Missing(value) == value = Undefined \/ value = Null \/ value = Str("")

\* (mutant) the default is taken before the required check
CreateFieldDefaultFirst(field, data, acc) ==
  LET given == Get(data, field.field_name)
      value == IF Missing(given) /\ field.default_value # Null
               THEN field.default_value ELSE given
  IN
  IF acc.status # 0 THEN acc
  ELSE IF field.is_required /\ Missing(value)
  THEN [acc EXCEPT !.status = 400, !.message = FieldRequired(field.field_name)]
  ELSE IF ~Missing(value)
  THEN IF ~validateDataType(value, field.data_type)
       THEN [acc EXCEPT !.status = 400,
                        !.message = InvalidDataType(field.field_name, field.data_type)]
       ELSE [acc EXCEPT !.jsonData = Put(@, field.field_name, value)]
  ELSE acc

\* (mutant) the default is stored only if it is of the declared type
CreateFieldCheckedDefault(field, data, acc) ==
  LET value == Get(data, field.field_name) IN
  IF acc.status # 0 THEN acc
  ELSE IF field.is_required /\ Missing(value)
  THEN [acc EXCEPT !.status = 400, !.message = FieldRequired(field.field_name)]
  ELSE IF ~Missing(value)
  THEN IF ~validateDataType(value, field.data_type)
       THEN [acc EXCEPT !.status = 400,
                        !.message = InvalidDataType(field.field_name, field.data_type)]
       ELSE [acc EXCEPT !.jsonData = Put(@, field.field_name, value)]
  ELSE IF field.default_value # Null
          /\ validateDataType(field.default_value, field.data_type)
  THEN [acc EXCEPT !.jsonData = Put(@, field.field_name, field.default_value)]
  ELSE acc

\* One pass of the loop over fields.  acc.status is 0 while no field failed.
CreateField(field, data, acc) ==
  LET value == Get(data, field.field_name) IN
  IF acc.status # 0 THEN acc
  ELSE IF field.is_required /\ Missing(value)
  THEN [acc EXCEPT !.status = 400, !.message = FieldRequired(field.field_name)]
  ELSE IF ~Missing(value)
  THEN IF ~validateDataType(value, field.data_type)
       THEN [acc EXCEPT !.status = 400,
                        !.message = InvalidDataType(field.field_name, field.data_type)]
       ELSE [acc EXCEPT !.jsonData = Put(@, field.field_name, value)]
  ELSE IF field.default_value # Null
  THEN [acc EXCEPT !.jsonData = Put(@, field.field_name, field.default_value)]
  ELSE acc

RECURSIVE CreateFields(_, _, _)
CreateFields(fs, data, acc) ==
  IF fs = <<>> THEN acc
  ELSE CreateFields(Tail(fs), data, CreateField(Head(fs), data, acc))

\* the loop of handleCreate over the endpoint's fields, from jsonData = {}
CreateResult(fs, data) ==
  CreateFields(fs, data,
               [status |-> 0, message |-> Message(""), jsonData |-> EmptyObject])

handleCreate(req) ==
  /\ Runs(req, "handleCreate")
  /\ auto_increment <= MaxDocs
  /\ LET endpoint_id == Endpoint(req).endpoint_id
         r == CreateResult(SelectFields(endpoint_id), req.body)
     IN IF r.status # 0
        THEN /\ Respond(req, r.status, r.message)
             /\ UNCHANGED <<data_storage, auto_increment>>
        ELSE /\ data_storage' = InsertData(data_storage, auto_increment,
                                           endpoint_id, JSONStringify(r.jsonData))
             /\ auto_increment' = auto_increment + 1
             /\ Respond(req, 201, Message("Data created successfully."))
  /\ UNCHANGED <<updating, deleted>>

(***************************************************************************)
(* handleRead                                                              *)
(***************************************************************************)
\* (mutant) the record without the row's data_id
ReadRecordNoId(data_id, data) == JSONParse(data)

\* { data_id: row.data_id, ...parsedData }
ReadRecord(data_id, data) ==
  LET parsedData == JSONParse(data) IN
  [k \in {"data_id"} \cup DOMAIN parsedData |->
     IF k \in DOMAIN parsedData THEN parsedData[k] ELSE Num(data_id * 10)]

\* rows.map(...): the array of records, indexed here by the row's data_id
ReadRows(table, endpoint_id) ==
  [i \in SelectByEndpoint(table, endpoint_id) |-> ReadRecord(i, table[i].data)]

handleRead(req) ==
  /\ Runs(req, "handleRead")
  /\ last' = Response(req, 200, Message(""),
                      ReadRows(data_storage, Endpoint(req).endpoint_id),
                      data_storage)
  /\ UNCHANGED <<data_storage, auto_increment, updating, deleted>>

(***************************************************************************)
(* handleUpdate                                                            *)
(***************************************************************************)
\* (mutant) the loop goes on after a field failed, so the last failure is
\* the one reported
UpdateFieldKeepGoing(field, data, acc) ==
  LET value == Get(data, field.field_name) IN
  IF value # Undefined
  THEN IF ~validateDataType(value, field.data_type)
       THEN [acc EXCEPT !.status = 400,
                        !.message = InvalidDataType(field.field_name, field.data_type)]
       ELSE [acc EXCEPT !.existingData = Put(@, field.field_name, value)]
  ELSE acc

\* One pass of the loop over fields.  acc.status is 0 while no field failed.
UpdateField(field, data, acc) ==
  LET value == Get(data, field.field_name) IN
  IF acc.status # 0 THEN acc
  ELSE IF value # Undefined
  THEN IF ~validateDataType(value, field.data_type)
       THEN [acc EXCEPT !.status = 400,
                        !.message = InvalidDataType(field.field_name, field.data_type)]
       ELSE [acc EXCEPT !.existingData = Put(@, field.field_name, value)]
  ELSE acc

RECURSIVE UpdateFields(_, _, _)
UpdateFields(fs, data, acc) ==
  IF fs = <<>> THEN acc
  ELSE UpdateFields(Tail(fs), data, UpdateField(Head(fs), data, acc))

\* (mutant) every key of the body is copied into the stored data
UpdateResultAssign(fs, data, existingData) ==
  LET r == UpdateFields(fs, data,
                        [status |-> 0, message |-> Message(""),
                         existingData |-> existingData])
  IN [r EXCEPT !.existingData =
        [k \in DOMAIN existingData \cup DOMAIN data |->
           IF k \in DOMAIN data THEN data[k] ELSE existingData[k]]]

\* (mutant) the body replaces the stored data instead of being merged into it
UpdateResultReplace(fs, data, existingData) ==
  UpdateFields(fs, data,
               [status |-> 0, message |-> Message(""), existingData |-> EmptyObject])

\* the loop of handleUpdate over the endpoint's fields, from the stored data
UpdateResult(fs, data, existingData) ==
  UpdateFields(fs, data,
               [status |-> 0, message |-> Message(""), existingData |-> existingData])

\* handleUpdate up to its UPDATE statement: the id check, the SELECT of the
\* stored data and the loop over fields.  A call that goes on to its UPDATE
\* keeps its locals in updating; selected is history, the data the SELECT
\* returned.  At most inflight calls are between SELECT and UPDATE at a time.
handleUpdateWithin(req, inflight) ==
  /\ Runs(req, "handleUpdate")
  /\ LET endpoint_id == Endpoint(req).endpoint_id
         existingRows == SelectById(data_storage, req.id, endpoint_id)
     IN IF Falsy(req.id)
        THEN /\ Respond(req, 400, Message("Data ID is required for update."))
             /\ UNCHANGED updating
        ELSE IF existingRows = {}
        THEN /\ Respond(req, 404, Message("Data not found."))
             /\ UNCHANGED updating
        ELSE LET row == data_storage[CHOOSE i \in existingRows : TRUE]
                 r == UpdateResult(SelectFields(endpoint_id), req.body,
                                   JSONParse(row.data))
             IN IF r.status # 0
                THEN /\ Respond(req, r.status, r.message)
                     /\ UNCHANGED updating
                ELSE /\ Cardinality(updating) < inflight
                     /\ updating' = updating \cup
                          {[req |-> req, endpoint_id |-> endpoint_id,
                            selected |-> row.data,
                            existingData |-> r.existingData]}
                     /\ UNCHANGED last
  /\ UNCHANGED <<data_storage, auto_increment, deleted>>

\* handleUpdate up to its UPDATE statement, in the specification Spec
handleUpdate(req) == handleUpdateWithin(req, MaxInflight)

\* (mutant) an UPDATE with a version check: a row that changed since the
\* SELECT is left alone and the call is answered 409
handleUpdateWriteChecked(u) ==
  /\ u \in updating
  /\ updating' = updating \ {u}
  /\ IF \A i \in SelectById(data_storage, u.req.id, u.endpoint_id) :
          data_storage[i].data = u.selected
     THEN /\ data_storage' = UpdateData(data_storage, JSONStringify(u.existingData),
                                        u.req.id, u.endpoint_id)
          /\ Respond(u.req, 200, Message("Data updated successfully."))
     ELSE /\ UNCHANGED data_storage
          /\ Respond(u.req, 409, Message("Conflict"))
  /\ UNCHANGED <<auto_increment, deleted>>

\* the UPDATE statement of a handleUpdate call and its response
handleUpdateWrite(u) ==
  /\ u \in updating
  /\ data_storage' = UpdateData(data_storage, JSONStringify(u.existingData),
                                u.req.id, u.endpoint_id)
  /\ updating' = updating \ {u}
  /\ Respond(u.req, 200, Message("Data updated successfully."))
  /\ UNCHANGED <<auto_increment, deleted>>

(***************************************************************************)
(* handleDelete                                                            *)
(***************************************************************************)
handleDelete(req) ==
  /\ Runs(req, "handleDelete")
  /\ LET endpoint_id == Endpoint(req).endpoint_id
         affectedRows == Cardinality(SelectById(data_storage, req.id, endpoint_id))
     IN IF Falsy(req.id)
        THEN /\ Respond(req, 400, Message("Data ID is required for deletion."))
             /\ UNCHANGED <<data_storage, deleted>>
        ELSE /\ data_storage' = DeleteData(data_storage, req.id, endpoint_id)
             /\ IF affectedRows = 0
                THEN /\ Respond(req, 404, Message("Data not found."))
                     /\ UNCHANGED deleted
                ELSE /\ Respond(req, 200, Message("Data deleted successfully."))
                     /\ deleted' = deleted \cup
                          {<<endpoint_id, i>> :
                             i \in SelectById(data_storage, req.id, endpoint_id)}
  /\ UNCHANGED <<auto_increment, updating>>

(***************************************************************************)
(* The dispatcher                                                          *)
(***************************************************************************)
\* last shows one response at a time.  The client takes it, and the next
\* request is observed from there; a GET to the same endpoint is also
\* observed right after the response it follows.
Taken ==
  /\ ~Idle
  /\ last' = NoResponse
  /\ UNCHANGED <<data_storage, auto_increment, updating, deleted>>

\* the requests that reach each branch of handleRequest
Unresolvable == {req \in Requests : Unresolved(req)}
Running(handler) == {req \in Requests : Runs(req, handler)}

\* The requests this specification sends to a handler: body key b takes one
\* value.
Sent(handler) ==
  {req \in Running(handler) : Get(req.body, "b") # Str("true")}

Next ==
  \/ /\ Idle /\ \E req \in Unresolvable : NotFound(req)
     /\ UNCHANGED <<call, requests, admin>>
  \/ /\ Idle /\ \E req \in Sent("default") : MethodNotAllowed(req)
     /\ UNCHANGED <<call, requests, admin>>
  \/ /\ Idle /\ \E req \in Sent("handleCreate") : handleCreate(req)
     /\ UNCHANGED <<call, requests, admin>>
  \/ /\ \E req \in Sent("handleRead") :
          /\ Idle \/ (req.user_id = last.req.user_id
                        /\ req.endpoint_name = last.req.endpoint_name)
          /\ handleRead(req)
     /\ UNCHANGED <<call, requests, admin>>
  \/ /\ Idle /\ \E req \in Sent("handleUpdate") : handleUpdate(req)
     /\ UNCHANGED <<call, requests, admin>>
  \/ /\ Idle /\ \E u \in updating : handleUpdateWrite(u)
     /\ UNCHANGED <<call, requests, admin>>
  \/ /\ Idle /\ \E req \in Sent("handleDelete") : handleDelete(req)
     /\ UNCHANGED <<call, requests, admin>>
  \/ /\ Taken
     /\ UNCHANGED <<call, requests, admin>>

Spec == Init /\ [][Next]_vars

(***************************************************************************)
(* Concurrent PUT requests: the requests of one user to one endpoint, with *)
(* up to MaxConcurrent handleUpdate calls between SELECT and UPDATE.       *)
(***************************************************************************)
Concurrent(handler) ==
  {req \in Running(handler) :
     /\ req.user_id = 1
     /\ req.endpoint_name = "X"
     /\ req.id \in {Undefined, Str(IdLiterals[1])}
     /\ Get(req.body, "a") # Str("")}

NextConcurrent ==
  \/ /\ Idle /\ \E req \in Concurrent("handleCreate") : handleCreate(req)
     /\ UNCHANGED <<call, requests, admin>>
  \/ /\ Idle /\ \E req \in Concurrent("handleRead") : handleRead(req)
     /\ UNCHANGED <<call, requests, admin>>
  \/ /\ Idle /\ \E req \in Concurrent("handleUpdate") :
                  handleUpdateWithin(req, MaxConcurrent)
     /\ UNCHANGED <<call, requests, admin>>
  \/ /\ Idle /\ \E u \in updating : handleUpdateWrite(u)
     /\ UNCHANGED <<call, requests, admin>>
  \/ /\ Idle /\ \E req \in Concurrent("handleDelete") : handleDelete(req)
     /\ UNCHANGED <<call, requests, admin>>
  \/ /\ Taken
     /\ UNCHANGED <<call, requests, admin>>

SpecConcurrent == Init /\ [][NextConcurrent]_vars

(***************************************************************************)
(* Requests to endpoint W, which declares a field named as the identity    *)
(* column of table data_storage.                                           *)
(***************************************************************************)
IdentityBodies ==
  {EmptyObject} \cup {[k \in {"data_id"} |-> v] : v \in {Num(10), Num(20), Str("2")}}
IdentityRequests ==
  {Request(2, "W", m, Undefined, EmptyObject) : m \in {"GET", "PATCH"}}
    \cup {Request(2, "W", "POST", Undefined, d) : d \in IdentityBodies}
    \cup {Request(2, "W", "PUT", i, d) : i \in QueryIds, d \in IdentityBodies}
    \cup {Request(2, "W", "DELETE", i, EmptyObject) : i \in QueryIds}
Colliding(handler) == {req \in IdentityRequests : Runs(req, handler)}

NextIdentity ==
  \/ /\ Idle /\ \E req \in Colliding("default") : MethodNotAllowed(req)
     /\ UNCHANGED <<call, requests, admin>>
  \/ /\ Idle /\ \E req \in Colliding("handleCreate") : handleCreate(req)
     /\ UNCHANGED <<call, requests, admin>>
  \/ /\ Idle /\ \E req \in Colliding("handleRead") : handleRead(req)
     /\ UNCHANGED <<call, requests, admin>>
  \/ /\ Idle /\ \E req \in Colliding("handleUpdate") : handleUpdate(req)
     /\ UNCHANGED <<call, requests, admin>>
  \/ /\ Idle /\ \E u \in updating : handleUpdateWrite(u)
     /\ UNCHANGED <<call, requests, admin>>
  \/ /\ Idle /\ \E req \in Colliding("handleDelete") : handleDelete(req)
     /\ UNCHANGED <<call, requests, admin>>
  \/ /\ Taken
     /\ UNCHANGED <<call, requests, admin>>

SpecIdentity == Init /\ [][NextIdentity]_vars

(***************************************************************************)
(* One request statement by statement: handleRequest awaits the SELECT on  *)
(* api_endpoints, the SELECT on fields and the handler, and every storage  *)
(* call either returns or throws.  Up to MaxRequests requests are in       *)
(* progress.                                                               *)
(***************************************************************************)
SteppedBodies ==
  {EmptyObject, [k \in {"b"} |-> Str("true")],
   [k \in {"a", "b"} |-> Str("30")]}
SteppedRequests ==
  {req \in Requests :
     /\ req.user_id = 1
     /\ req.endpoint_name \in {"X", "Z"}
     /\ req.id \in {Undefined, Str(IdLiterals[1])}
     /\ req.body \in SteppedBodies}

\* res.status(...).json(...) of the request in the slot
Responded(slot, response) ==
  [slot EXCEPT !.state = "Responding", !.at = "", !.sent = @ + 1,
               !.status = response.status,
               !.visited = Append(@, "Responding")]
\* the state the switch on the verb leads to
StateOf(handler) ==
  CASE handler = "handleCreate" -> "Creating"
    [] handler = "handleRead" -> "Reading"
    [] handler = "handleUpdate" -> "Updating"
    [] handler = "handleDelete" -> "Deleting"
    [] OTHER -> "Responding"

\* handleRequest is called with a request
Receive(s, req) ==
  /\ requests[s] = NoSlot
  /\ \A o \in Slots : requests[o].req # req
  /\ req.method = "POST" =>
       auto_increment + Cardinality({o \in Slots : requests[o].req.method = "POST"})
         <= MaxDocs
  /\ requests' = [requests EXCEPT ![s] =
       [NoSlot EXCEPT !.req = req, !.state = "Resolving", !.at = "api_endpoints",
                      !.visited = <<"Resolving">>]]
  /\ UNCHANGED <<data_storage, auto_increment, updating, last, deleted>>

\* the SELECT on api_endpoints returns: 404 if it found no row
ResolveEndpoint(s) ==
  /\ requests[s].at = "api_endpoints"
  /\ IF Unresolved(requests[s].req)
     THEN /\ NotFound(requests[s].req)
          /\ requests' = [requests EXCEPT ![s] = Responded(@, last')]
     ELSE /\ requests' = [requests EXCEPT ![s].at = "fields"]
          /\ UNCHANGED <<data_storage, auto_increment, updating, last, deleted>>

\* the SELECT on fields returns and the switch picks the handler: 405 for
\* default
ResolveFields(s) ==
  /\ requests[s].at = "fields"
  /\ LET req == requests[s].req
         handler == Operation(req.method, Endpoint(req))
     IN IF handler = "default"
        THEN /\ MethodNotAllowed(req)
             /\ requests' = [requests EXCEPT ![s] = Responded(@, last')]
        ELSE /\ requests' = [requests EXCEPT
                  ![s].state = StateOf(handler), ![s].at = "data_storage",
                  ![s].visited = Append(@, StateOf(handler))]
             /\ UNCHANGED <<data_storage, auto_increment, updating, last, deleted>>

\* the handler runs to its response, handleUpdate to its UPDATE
Handle(s) ==
  /\ requests[s].at = "data_storage"
  /\ LET req == requests[s].req IN
     \/ /\ requests[s].state = "Creating"
        /\ handleCreate(req)
        /\ requests' = [requests EXCEPT ![s] = Responded(@, last')]
     \/ /\ requests[s].state = "Reading"
        /\ handleRead(req)
        /\ requests' = [requests EXCEPT ![s] = Responded(@, last')]
     \/ /\ requests[s].state = "Deleting"
        /\ handleDelete(req)
        /\ requests' = [requests EXCEPT ![s] = Responded(@, last')]
     \/ /\ requests[s].state = "Updating"
        /\ handleUpdateWithin(req, MaxRequests)
        /\ requests' = [requests EXCEPT ![s] =
             IF updating' = updating THEN Responded(@, last')
             ELSE [@ EXCEPT !.at = "update"]]

\* the UPDATE of handleUpdate returns
Write(s) ==
  /\ requests[s].at = "update"
  /\ \E u \in updating :
       /\ u.req = requests[s].req
       /\ handleUpdateWrite(u)
  /\ requests' = [requests EXCEPT ![s] = Responded(@, last')]

\* the request's next storage call is reached: a POST reaches its INSERT
\* if the body passes the loop over fields, a PUT its SELECT and a DELETE
\* its DELETE if the request has an id
ReachesCall(slot) ==
  CASE slot.at \in {"api_endpoints", "fields", "update"} -> TRUE
    [] slot.at = "data_storage" /\ slot.state = "Creating" ->
         CreateResult(SelectFields(Endpoint(slot.req).endpoint_id),
                      slot.req.body).status = 0
    [] slot.at = "data_storage" /\ slot.state = "Reading" -> TRUE
    [] slot.at = "data_storage" /\ slot.state \in {"Updating", "Deleting"} ->
         ~Falsy(slot.req.id)
    [] OTHER -> FALSE

\* (mutant) the catch block sends the call again instead of answering
StorageErrorRetried(s) ==
  /\ ReachesCall(requests[s])
  /\ requests' = [requests EXCEPT ![s].failed = requests[s].at]
  /\ UNCHANGED <<data_storage, auto_increment, updating, last, deleted>>

\* (mutant) the catch block logs the error and sends no response
StorageErrorSwallowed(s) ==
  /\ ReachesCall(requests[s])
  /\ requests' = [requests EXCEPT ![s].failed = requests[s].at, ![s].at = ""]
  /\ updating' = {u \in updating : u.req # requests[s].req}
  /\ UNCHANGED <<data_storage, auto_increment, last, deleted>>

\* the request's next storage call throws: the catch block of the handler,
\* or that of handleRequest, answers 500; the statement has changed nothing
StorageError(s) ==
  /\ ReachesCall(requests[s])
  /\ Respond(requests[s].req, 500, Message("Server error."))
  /\ requests' = [requests EXCEPT ![s] =
       [Responded(@, last') EXCEPT !.failed = requests[s].at]]
  /\ updating' = {u \in updating : u.req # requests[s].req}
  /\ UNCHANGED <<data_storage, auto_increment, deleted>>

\* the request is over: the client has taken the response
Finish(s) ==
  /\ requests[s].state = "Responding"
  /\ requests' = [requests EXCEPT ![s] = NoSlot]
  /\ last' = NoResponse
  /\ UNCHANGED <<data_storage, auto_increment, updating, deleted>>

\* the steps of the request in slot s
Step(s) ==
  \/ ResolveEndpoint(s)
  \/ ResolveFields(s)
  \/ Handle(s)
  \/ Write(s)
  \/ StorageError(s)

NextRequest ==
  \/ /\ \E s \in Slots, req \in SteppedRequests : Receive(s, req)
     /\ UNCHANGED <<call, admin>>
  \/ /\ \E s \in Slots : ResolveEndpoint(s)
     /\ UNCHANGED <<call, admin>>
  \/ /\ \E s \in Slots : ResolveFields(s)
     /\ UNCHANGED <<call, admin>>
  \/ /\ \E s \in Slots : Handle(s)
     /\ UNCHANGED <<call, admin>>
  \/ /\ \E s \in Slots : Write(s)
     /\ UNCHANGED <<call, admin>>
  \/ /\ \E s \in Slots : StorageError(s)
     /\ UNCHANGED <<call, admin>>
  \/ /\ \E s \in Slots : Finish(s)
     /\ UNCHANGED <<call, admin>>

SpecRequest == Init /\ [][NextRequest]_vars

\* Node runs every callback that is ready: a request that has a step to
\* take, its storage call returning or throwing, takes it.
FairSpecRequest ==
  SpecRequest /\ \A s \in Slots : WF_vars(Step(s) /\ UNCHANGED <<call, admin>>)

(***************************************************************************)
(* validateDataType by itself, and in the loops of handleCreate and        *)
(* handleUpdate over a field list of one field with the called type.       *)
(***************************************************************************)
\* the values of a JSON body member: strings, numbers, booleans and null
Values ==
  {Str(x) : x \in {"", "0", "3", "30", "3.5", "abc", "yes", "true", "false",
                   "2024-01-15"}}
    \cup {Num(0), Num(30), Num(35), Bool(TRUE), Bool(FALSE), Null}
\* data_type of a row of table fields
TypeTags ==
  {"INT", "FLOAT", "VARCHAR", "TEXT", "BOOLEAN", "DATE", "DATETIME",
   "int", "boolean", "varchar", "UUID", ""}
\* the field list and the body of a request that gives value for field f
OneField(data_type) ==
  << [endpoint_id |-> 0, field_name |-> "f", data_type |-> data_type,
      is_required |-> FALSE, default_value |-> Null] >>
OneValue(value) == [k \in {"f"} |-> value]

InitValidate ==
  /\ data_storage = NoTable
  /\ auto_increment = 1
  /\ updating = {}
  /\ last = NoResponse
  /\ deleted = {}
  /\ requests = NoRequests
  /\ admin = NoAdmin
  /\ call \in {[op |-> o, value |-> v, data_type |-> t, state |-> "called",
                accepted |-> FALSE, status |-> 0]
               : o \in {"validateDataType", "handleCreate", "handleUpdate"},
                 v \in Values, t \in TypeTags}

\* validateDataType(value, data_type) returns
Validate ==
  /\ call.state = "called"
  /\ call.op = "validateDataType"
  /\ call' = [call EXCEPT !.state = "returned",
                          !.accepted = validateDataType(call.value, call.data_type)]
  /\ UNCHANGED <<data_storage, auto_increment, updating, last, deleted, requests,
                 admin>>

\* the loop of handleCreate ends: 400, or 201 after the INSERT
ValidateOnCreate ==
  /\ call.state = "called"
  /\ call.op = "handleCreate"
  /\ LET r == CreateResult(OneField(call.data_type), OneValue(call.value))
     IN call' = [call EXCEPT !.state = "returned",
                             !.accepted = "f" \in DOMAIN r.jsonData,
                             !.status = IF r.status # 0 THEN r.status ELSE 201]
  /\ UNCHANGED <<data_storage, auto_increment, updating, last, deleted, requests,
                 admin>>

\* the loop of handleUpdate ends: 400, or 200 after the UPDATE
ValidateOnUpdate ==
  /\ call.state = "called"
  /\ call.op = "handleUpdate"
  /\ LET r == UpdateResult(OneField(call.data_type), OneValue(call.value),
                           EmptyObject)
     IN call' = [call EXCEPT !.state = "returned",
                             !.accepted = "f" \in DOMAIN r.existingData,
                             !.status = IF r.status # 0 THEN r.status ELSE 200]
  /\ UNCHANGED <<data_storage, auto_increment, updating, last, deleted, requests,
                 admin>>

NextValidate == Validate \/ ValidateOnCreate \/ ValidateOnUpdate

SpecValidate == InitValidate /\ [][NextValidate]_vars

(***************************************************************************)
(* The administrative API (endpointController).  Its handlers write tables *)
(* api_endpoints and fields on behalf of the user of the request.  A       *)
(* handler that awaits two statements is two steps, with the requests of   *)
(* both users free to run in between; addFields issues one INSERT per      *)
(* field and awaits them together.  A text that is absent from a body is   *)
(* the empty string: the handlers test both with !x.                       *)
(***************************************************************************)
validMethods == {"GET", "POST", "PUT", "DELETE"}
validDataTypes ==
  {"INT", "VARCHAR", "TEXT", "DATE", "DATETIME", "BOOLEAN", "FLOAT"}

\* req.params.id and req.params.fieldId
EndpointIds == 1..MaxEndpoints
FieldIds == 1..MaxFields
\* req.body of createEndpoint and of updateEndpoint
CreateEndpointBodies ==
  {<<"", "get">>, <<"X", "PATCH">>, <<"X", "get">>, <<"Y", "get">>}
UpdateEndpointBodies == {<<"", "">>, <<"", "PATCH">>, <<"Y", "">>}
\* req.body.fields of addFields
FieldBodyA == [field_name |-> "a", data_type |-> "int"]
FieldBodyB == [field_name |-> "b", data_type |-> "int"]
FieldLists ==
  {<<>>, <<FieldBodyA>>, <<FieldBodyA, FieldBodyB>>, <<FieldBodyA, FieldBodyA>>,
   <<[field_name |-> "", data_type |-> "int"]>>,
   <<[field_name |-> "a", data_type |-> "UUID"]>>}
\* req.body of updateField: field_name, data_type, is_required; no body
\* carries default_value
UpdateFieldBodies ==
  {<<"", "", Undefined>>, <<"", "UUID", Undefined>>,
   <<"b", "text", Bool(TRUE)>>}

EndpointRequests(op, ids, bodies) ==
  {[NoAdminRequest EXCEPT !.user_id = u, !.op = op, !.id = id,
                          !.endpoint_name = body[1], !.http_method = body[2]] :
     u \in Users, id \in ids, body \in bodies}
BareAdminRequests(op, ids, fieldIds) ==
  {[NoAdminRequest EXCEPT !.user_id = u, !.op = op, !.id = id, !.fieldId = f] :
     u \in Users, id \in ids, f \in fieldIds}
AddFieldsRequests ==
  {[NoAdminRequest EXCEPT !.user_id = u, !.op = "addFields", !.id = id,
                          !.fields = fs] :
     u \in Users, id \in EndpointIds, fs \in FieldLists}
UpdateFieldRequests ==
  {[NoAdminRequest EXCEPT !.user_id = u, !.op = "updateField", !.id = id,
                          !.fieldId = f, !.field_name = body[1],
                          !.data_type = body[2], !.is_required = body[3]] :
     u \in Users, id \in EndpointIds, f \in FieldIds,
     body \in UpdateFieldBodies}

\* res.status(status).json(...), on the tables a
AdminRespond(a, req, status, message, rows) ==
  admin' = [a EXCEPT !.last =
              [req |-> req, status |-> status, message |-> message,
               rows |-> rows,
               before |-> [api_endpoints |-> admin.api_endpoints,
                           fields |-> admin.fields]]]
\* no response on display
AdminIdle == admin.last = NoAdminResponse
\* a handler between its first statement and its last: pending are the
\* INSERTs of addFields still to run, rejected whether one has thrown,
\* inserted the insertId of those that have returned
AdminCall(req) ==
  [req |-> req, pending |-> 1..Len(req.fields), rejected |-> FALSE,
   inserted |-> {}]
Await(req) ==
  /\ Cardinality(admin.calls) < MaxAdminCalls
  /\ admin' = [admin EXCEPT !.calls = @ \cup {AdminCall(req)}]

\* SELECT * FROM api_endpoints WHERE endpoint_id = ?
SelectEndpointOfAnyUser(endpoint_id, user_id) ==
  {e \in admin.api_endpoints : e.endpoint_id = endpoint_id}
\* SELECT * FROM api_endpoints WHERE endpoint_id = ? AND user_id = ?
SelectOwnEndpoint(endpoint_id, user_id) ==
  {e \in admin.api_endpoints :
     e.endpoint_id = endpoint_id /\ e.user_id = user_id}
\* SELECT fe.* FROM fields fe JOIN api_endpoints ae
\*   ON fe.endpoint_id = ae.endpoint_id
\*   WHERE fe.field_id = ? AND ae.endpoint_id = ? AND ae.user_id = ?
SelectOwnField(field_id, endpoint_id, user_id) ==
  {fe \in admin.fields :
     /\ fe.field_id = field_id
     /\ \E ae \in admin.api_endpoints :
          /\ fe.endpoint_id = ae.endpoint_id
          /\ ae.endpoint_id = endpoint_id
          /\ ae.user_id = user_id}
\* ER_DUP_ENTRY on api_endpoints: a user has one endpoint of a name
DuplicateEndpoint(row) ==
  \E e \in admin.api_endpoints :
    /\ e.endpoint_id # row.endpoint_id
    /\ e.user_id = row.user_id
    /\ e.endpoint_name = row.endpoint_name
\* ER_DUP_ENTRY on fields: an endpoint has one field of a name
DuplicateField(row) ==
  \E f \in admin.fields :
    /\ f.field_id # row.field_id
    /\ f.endpoint_id = row.endpoint_id
    /\ f.field_name = row.field_name

\* the 400 a handler sends before its first statement, "" if it sends none
createEndpointRefusal(req) ==
  IF req.endpoint_name = "" \/ req.http_method = ""
  THEN "Endpoint name and HTTP method are required."
  ELSE IF ToUpperCase(req.http_method) \notin validMethods
  THEN "Invalid HTTP method."
  ELSE ""
updateEndpointRefusal(req) ==
  IF req.endpoint_name = "" /\ req.http_method = ""
  THEN "At least one field (endpoint_name or http_method) is required."
  ELSE IF req.http_method # "" /\ ToUpperCase(req.http_method) \notin validMethods
  THEN "Invalid HTTP method."
  ELSE ""
addFieldsFieldRefusal(field) ==
  IF field.field_name = "" \/ field.data_type = ""
  THEN "Each field must have a field_name and data_type."
  ELSE IF ToUpperCase(field.data_type) \notin validDataTypes
  THEN "Invalid data type for field " \o field.field_name \o "."
  ELSE ""
addFieldsRefusal(req) ==
  LET refused == {i \in DOMAIN req.fields : addFieldsFieldRefusal(req.fields[i]) # ""}
  IN IF req.fields = <<>>
     THEN "Fields are required and should be an array."
     ELSE IF refused # {}
     THEN addFieldsFieldRefusal(
            req.fields[CHOOSE i \in refused : \A j \in refused : i <= j])
     ELSE ""
updateFieldRefusal(req) ==
  IF req.field_name = "" /\ req.data_type = "" /\ req.is_required = Undefined
  THEN "At least one field to update is required."
  ELSE IF req.data_type # "" /\ ToUpperCase(req.data_type) \notin validDataTypes
  THEN "Invalid data type."
  ELSE ""

createEndpoint(req) ==
  /\ AdminIdle
  /\ admin.insertId.api_endpoints <= MaxEndpoints
  /\ LET row == [endpoint_id |-> admin.insertId.api_endpoints,
                 user_id |-> req.user_id,
                 endpoint_name |-> req.endpoint_name,
                 http_method |-> ToUpperCase(req.http_method)]
     IN IF createEndpointRefusal(req) # ""
        THEN AdminRespond(admin, req, 400, createEndpointRefusal(req), {})
        ELSE IF DuplicateEndpoint(row)
        THEN AdminRespond(admin, req, 409, "Endpoint name already exists.", {})
        ELSE AdminRespond(
               [admin EXCEPT !.api_endpoints = @ \cup {row},
                             !.insertId.api_endpoints = @ + 1],
               req, 201, "API endpoint created successfully.", {})

getEndpoints(req) ==
  /\ AdminIdle
  /\ AdminRespond(admin, req, 200, "",
                  {e \in admin.api_endpoints : e.user_id = req.user_id})

getEndpointById(req) ==
  /\ AdminIdle
  /\ LET endpoint == SelectOwnEndpoint(req.id, req.user_id)
     IN IF endpoint = {}
        THEN AdminRespond(admin, req, 404, "API endpoint not found.", {})
        ELSE AdminRespond(admin, req, 200, "", endpoint)

updateEndpoint(req) ==
  /\ AdminIdle
  /\ IF updateEndpointRefusal(req) # ""
     THEN AdminRespond(admin, req, 400, updateEndpointRefusal(req), {})
     ELSE IF SelectOwnEndpoint(req.id, req.user_id) = {}
     THEN AdminRespond(admin, req, 404, "API endpoint not found.", {})
     ELSE Await(req)

\* UPDATE api_endpoints SET ... WHERE endpoint_id = ? AND user_id = ?
updateEndpointWrite(c) ==
  /\ AdminIdle
  /\ c.req.op = "updateEndpoint"
  /\ LET req == c.req
         matched == {e \in admin.api_endpoints :
                       e.endpoint_id = req.id /\ e.user_id = req.user_id}
         Set(e) ==
           [e EXCEPT !.endpoint_name =
                       IF req.endpoint_name # "" THEN req.endpoint_name ELSE @,
                     !.http_method =
                       IF req.http_method # ""
                       THEN ToUpperCase(req.http_method) ELSE @]
         returned == [admin EXCEPT !.calls = @ \ {c}]
     IN IF \E e \in matched : DuplicateEndpoint(Set(e))
        THEN AdminRespond(returned, req, 409, "Endpoint name already exists.", {})
        ELSE AdminRespond(
               [returned EXCEPT !.api_endpoints =
                  (@ \ matched) \cup {Set(e) : e \in matched}],
               req, 200, "API endpoint updated successfully.", {})

\* DELETE FROM api_endpoints WHERE endpoint_id = ? AND user_id = ?; whether
\* the fields of the endpoint go with it is the schema's choice
deleteEndpoint(req) ==
  /\ AdminIdle
  /\ LET matched == {e \in admin.api_endpoints :
                       e.endpoint_id = req.id /\ e.user_id = req.user_id}
     IN IF matched = {}
        THEN AdminRespond(admin, req, 404, "API endpoint not found.", {})
        ELSE \E cascade \in BOOLEAN :
               AdminRespond(
                 [admin EXCEPT !.api_endpoints = @ \ matched,
                               !.fields =
                                 IF cascade
                                 THEN {f \in @ : f.endpoint_id # req.id}
                                 ELSE @],
                 req, 200, "API endpoint deleted successfully.", {})

addFields(req) ==
  /\ AdminIdle
  /\ IF addFieldsRefusal(req) # ""
     THEN AdminRespond(admin, req, 400, addFieldsRefusal(req), {})
     ELSE IF SelectOwnEndpoint(req.id, req.user_id) = {}
     THEN AdminRespond(admin, req, 404, "API endpoint not found.", {})
     ELSE /\ admin.insertId.fields + Len(req.fields) - 1 <= MaxFields
          /\ Await(req)

\* INSERT INTO fields (endpoint_id, field_name, data_type, is_required,
\* default_value) of field i of the body; Promise.all rejects with the first
\* INSERT that throws and resolves when every INSERT has returned
addFieldsInsert(c, i) ==
  /\ AdminIdle
  /\ c.req.op = "addFields"
  /\ i \in c.pending
  /\ LET req == c.req
         row == [field_id |-> admin.insertId.fields,
                 endpoint_id |-> req.id,
                 field_name |-> req.fields[i].field_name,
                 data_type |-> ToUpperCase(req.fields[i].data_type),
                 is_required |-> FALSE,
                 default_value |-> Null]
         rest == [c EXCEPT !.pending = @ \ {i},
                           !.rejected = @ \/ DuplicateField(row),
                           !.inserted =
                             IF DuplicateField(row) THEN @
                             ELSE @ \cup {row.field_id}]
         returned ==
           [admin EXCEPT !.calls =
              (@ \ {c}) \cup (IF rest.pending = {} THEN {} ELSE {rest})]
         inserted ==
           [returned EXCEPT !.fields = @ \cup {row}, !.insertId.fields = @ + 1]
     IN IF DuplicateField(row)
        THEN IF c.rejected
             THEN admin' = returned
             ELSE AdminRespond(
                    returned, req, 409,
                    "One or more field names already exist for this endpoint.",
                    {})
        ELSE IF rest.pending = {} /\ ~c.rejected
             THEN AdminRespond(inserted, req, 201, "Fields added successfully.", {})
             ELSE admin' = inserted

getFields(req) ==
  /\ AdminIdle
  /\ IF SelectOwnEndpoint(req.id, req.user_id) = {}
     THEN AdminRespond(admin, req, 404, "API endpoint not found.", {})
     ELSE Await(req)

\* SELECT * FROM fields WHERE endpoint_id = ?
getFieldsRead(c) ==
  /\ AdminIdle
  /\ c.req.op = "getFields"
  /\ AdminRespond([admin EXCEPT !.calls = @ \ {c}], c.req, 200, "",
                  {f \in admin.fields : f.endpoint_id = c.req.id})

updateField(req) ==
  /\ AdminIdle
  /\ IF updateFieldRefusal(req) # ""
     THEN AdminRespond(admin, req, 400, updateFieldRefusal(req), {})
     ELSE IF SelectOwnField(req.fieldId, req.id, req.user_id) = {}
     THEN AdminRespond(admin, req, 404, "Field not found.", {})
     ELSE Await(req)

\* UPDATE fields SET ... WHERE field_id = ?
updateFieldWrite(c) ==
  /\ AdminIdle
  /\ c.req.op = "updateField"
  /\ LET req == c.req
         matched == {f \in admin.fields : f.field_id = req.fieldId}
         Set(f) ==
           [f EXCEPT !.field_name =
                       IF req.field_name # "" THEN req.field_name ELSE @,
                     !.data_type =
                       IF req.data_type # ""
                       THEN ToUpperCase(req.data_type) ELSE @,
                     !.is_required =
                       IF req.is_required # Undefined
                       THEN req.is_required.b ELSE @]
         returned == [admin EXCEPT !.calls = @ \ {c}]
     IN IF \E f \in matched : DuplicateField(Set(f))
        THEN AdminRespond(returned, req, 409,
                          "Field name already exists for this endpoint.", {})
        ELSE AdminRespond(
               [returned EXCEPT !.fields =
                  (@ \ matched) \cup {Set(f) : f \in matched}],
               req, 200, "Field updated successfully.", {})

deleteField(req) ==
  /\ AdminIdle
  /\ IF SelectOwnField(req.fieldId, req.id, req.user_id) = {}
     THEN AdminRespond(admin, req, 404, "Field not found.", {})
     ELSE Await(req)

\* DELETE FROM fields WHERE field_id = ?
deleteFieldWrite(c) ==
  /\ AdminIdle
  /\ c.req.op = "deleteField"
  /\ AdminRespond(
       [admin EXCEPT !.calls = @ \ {c},
                     !.fields = {f \in @ : f.field_id # c.req.fieldId}],
       c.req, 200, "Field deleted successfully.", {})

\* the client takes the response
AdminTaken ==
  /\ ~AdminIdle
  /\ admin' = [admin EXCEPT !.last = NoAdminResponse]

Dispatcher ==
  <<data_storage, auto_increment, updating, last, deleted, call, requests>>

NextAdmin ==
  \/ /\ \E req \in EndpointRequests("createEndpoint", {0}, CreateEndpointBodies) : createEndpoint(req)
     /\ UNCHANGED Dispatcher
  \/ /\ \E req \in BareAdminRequests("getEndpoints", {0}, {0}) : getEndpoints(req)
     /\ UNCHANGED Dispatcher
  \/ /\ \E req \in BareAdminRequests("getEndpointById", EndpointIds, {0}) :
          getEndpointById(req)
     /\ UNCHANGED Dispatcher
  \/ /\ \E req \in EndpointRequests("updateEndpoint", EndpointIds, UpdateEndpointBodies) :
          updateEndpoint(req)
     /\ UNCHANGED Dispatcher
  \/ /\ \E c \in admin.calls : updateEndpointWrite(c)
     /\ UNCHANGED Dispatcher
  \/ /\ \E req \in BareAdminRequests("deleteEndpoint", EndpointIds, {0}) :
          deleteEndpoint(req)
     /\ UNCHANGED Dispatcher
  \/ /\ \E req \in AddFieldsRequests : addFields(req)
     /\ UNCHANGED Dispatcher
  \/ /\ \E c \in admin.calls : \E i \in c.pending : addFieldsInsert(c, i)
     /\ UNCHANGED Dispatcher
  \/ /\ \E req \in BareAdminRequests("getFields", EndpointIds, {0}) :
          getFields(req)
     /\ UNCHANGED Dispatcher
  \/ /\ \E c \in admin.calls : getFieldsRead(c)
     /\ UNCHANGED Dispatcher
  \/ /\ \E req \in UpdateFieldRequests : updateField(req)
     /\ UNCHANGED Dispatcher
  \/ /\ \E c \in admin.calls : updateFieldWrite(c)
     /\ UNCHANGED Dispatcher
  \/ /\ \E req \in BareAdminRequests("deleteField", EndpointIds, FieldIds) :
          deleteField(req)
     /\ UNCHANGED Dispatcher
  \/ /\ \E c \in admin.calls : deleteFieldWrite(c)
     /\ UNCHANGED Dispatcher
  \/ /\ AdminTaken
     /\ UNCHANGED Dispatcher

SpecAdmin == Init /\ [][NextAdmin]_vars

(***************************************************************************)
(* Properties.  In a state where a response is on display, last.before is  *)
(* table data_storage as the request found it and data_storage is the      *)
(* table as the request left it.                                           *)
(***************************************************************************)
Answered == last # NoResponse
\* the endpoint definitions of the request's user under the request's name
OwnEndpoints(req) ==
  {e \in api_endpoints :
     e.user_id = req.user_id /\ e.endpoint_name = req.endpoint_name}
OwnEndpoint(req) == CHOOSE e \in OwnEndpoints(req) : TRUE
\* the field definitions of an endpoint, by position in the field list
FieldList(endpoint_id) ==
  {i \in DOMAIN fields : fields[i].endpoint_id = endpoint_id}
Declared(endpoint_id) ==
  {fields[i].field_name : i \in FieldList(endpoint_id)}
StoreUntouched == data_storage = last.before
RowsOf(table, endpoint_id) ==
  {i \in DOMAIN table : table[i].endpoint_id = endpoint_id}
ValidationTexts == {"Field is required.", "Invalid data type for field."}

\* C1: a request for a name of which the requesting user has no endpoint is
\* answered 404 with the one not-found message, under every verb, and leaves
\* every document as it was; the answer does not depend on whether another
\* user has an endpoint of that name.
C1_UnknownEndpoint404 ==
  Answered /\ OwnEndpoints(last.req) = {} =>
    /\ last.status = 404
    /\ last.message = Message("API endpoint not found.")
    /\ last.rows = NoRows
    /\ StoreUntouched

\* an unsupported verb, on a name another user has an endpoint of
C1_Witness ==
  /\ last.status = 404
  /\ last.req.method = "PATCH"
  /\ OwnEndpoints(last.req) = {}
  /\ \E e \in api_endpoints :
       e.endpoint_name = last.req.endpoint_name /\ e.user_id # last.req.user_id
  /\ DOMAIN data_storage # {}

\* what each operation answers and does to the table
LooksLikeRead ==
  /\ last.status = 200
  /\ DOMAIN last.rows = RowsOf(last.before, OwnEndpoint(last.req).endpoint_id)
  /\ StoreUntouched
LooksLikeCreate ==
  \/ /\ last.status = 201
     /\ last.message = Message("Data created successfully.")
     /\ Cardinality(DOMAIN data_storage) = Cardinality(DOMAIN last.before) + 1
  \/ /\ last.status = 400
     /\ last.message.text \in ValidationTexts
     /\ StoreUntouched
LooksLikeUpdate ==
  /\ \/ last.status = 400 /\ last.message = Message("Data ID is required for update.")
     \/ last.status = 400 /\ last.message.text = "Invalid data type for field."
     \/ last.status = 404 /\ last.message = Message("Data not found.")
     \/ last.status = 200 /\ last.message = Message("Data updated successfully.")
  /\ DOMAIN data_storage = DOMAIN last.before
LooksLikeDelete ==
  \/ /\ last.status = 400
     /\ last.message = Message("Data ID is required for deletion.")
     /\ StoreUntouched
  \/ /\ last.status = 404
     /\ last.message = Message("Data not found.")
     /\ StoreUntouched
  \/ /\ last.status = 200
     /\ last.message = Message("Data deleted successfully.")
     /\ Cardinality(DOMAIN data_storage) = Cardinality(DOMAIN last.before) - 1

\* C2: on an endpoint of the requesting user the verb alone picks the
\* operation: GET reads, POST creates, PUT updates, DELETE deletes, whatever
\* method the endpoint declares; any other verb is answered 405 and leaves
\* every document as it was.
C2_VerbPicksOperation ==
  /\ Answered /\ OwnEndpoints(last.req) # {} =>
       CASE last.req.method = "GET" -> LooksLikeRead
         [] last.req.method = "POST" -> LooksLikeCreate
         [] last.req.method = "PUT" -> LooksLikeUpdate
         [] last.req.method = "DELETE" -> LooksLikeDelete
         [] OTHER -> /\ last.status = 405
                     /\ last.message = Message("Method Not Allowed")
                     /\ StoreUntouched
  /\ \A u \in updating : u.req.method = "PUT"

\* a document created by POST on an endpoint that declares GET
C2_Witness ==
  /\ last.status = 201
  /\ last.req.method = "POST"
  /\ OwnEndpoints(last.req) # {}
  /\ OwnEndpoint(last.req).http_method = "GET"

\* the payload a row's data parses to, read token by token
Payload(table, i) == JSONParse(table[i].data)
\* the row a POST answered 201 has inserted
Created == CHOOSE i \in DOMAIN data_storage : i \notin DOMAIN last.before
IsCreate201 ==
  /\ last.req.method = "POST"
  /\ last.status = 201
  /\ OwnEndpoints(last.req) # {}

\* C5: a document stored by POST holds, for every declared field whose body
\* value is absent, null or the empty string, the field's default if that
\* is not null, whether or not the default is of the field's declared type,
\* and does not hold the field if its default is null.
C5_DefaultsOnCreate ==
  IsCreate201 =>
    /\ DOMAIN data_storage \ DOMAIN last.before # {}
    /\ \A i \in FieldList(OwnEndpoint(last.req).endpoint_id) :
         LET f == fields[i]
             value == Get(last.req.body, f.field_name)
         IN value \in {Undefined, Null, Str("")} =>
              IF f.default_value # Null
              THEN Get(Payload(data_storage, Created), f.field_name) = f.default_value
              ELSE f.field_name \notin DOMAIN data_storage[Created].data

\* a stored document that took a default which is not of the declared type
\* for an empty string and left out a field whose default is null
C5_Witness ==
  /\ IsCreate201
  /\ \E i, j \in FieldList(OwnEndpoint(last.req).endpoint_id) :
       /\ Get(last.req.body, fields[i].field_name) = Str("")
       /\ fields[i].default_value # Null
       /\ ~validateDataType(fields[i].default_value, fields[i].data_type)
       /\ Get(Payload(data_storage, Created), fields[i].field_name)
            = fields[i].default_value
       /\ fields[j].default_value = Null
       /\ fields[j].field_name \notin DOMAIN data_storage[Created].data

\* C9: the payload keys of every stored document are field names its
\* endpoint declares; a body key that is no declared field is never stored.
C9_PayloadKeysDeclared ==
  \A i \in DOMAIN data_storage :
    DOMAIN data_storage[i].data \subseteq Declared(data_storage[i].endpoint_id)

\* a PUT answered 200 that changed a document and whose body carried a key
\* its endpoint does not declare
C9_Witness ==
  /\ last.req.method = "PUT"
  /\ last.status = 200
  /\ \E k \in DOMAIN last.req.body :
       k \notin Declared(OwnEndpoint(last.req).endpoint_id)
  /\ \E i \in DOMAIN data_storage :
       /\ IdMatches(i, last.req.id)
       /\ data_storage[i] # last.before[i]

\* the identity a read-all record shows
Identity(record) == record["data_id"]

\* C7: no GET on an endpoint returns a record with the identity of a
\* document whose DELETE on that endpoint was answered 200 before, whatever
\* creates, updates and deletes ran in between.
C7_DeletedStaysDeleted ==
  Answered /\ last.req.method = "GET" /\ OwnEndpoints(last.req) # {} =>
    \A d \in deleted, i \in DOMAIN last.rows :
      d[1] = OwnEndpoint(last.req).endpoint_id =>
        Identity(last.rows[i]) # Num(d[2] * 10)

\* a GET that returns a later document of an endpoint one of whose documents
\* was deleted before
C7_Witness ==
  /\ last.req.method = "GET"
  /\ last.status = 200
  /\ DOMAIN last.rows # {}
  /\ \E d \in deleted : d[1] = OwnEndpoint(last.req).endpoint_id

\* a field fails on create: required and missing, or given and of the wrong
\* type
FailsCreate(f, body) ==
  LET value == Get(body, f.field_name) IN
  \/ f.is_required /\ value \in {Undefined, Null, Str("")}
  \/ value \notin {Undefined, Null, Str("")} /\ ~validateDataType(value, f.data_type)
\* a field fails on update: given and of the wrong type
FailsUpdate(f, body) ==
  LET value == Get(body, f.field_name) IN
  value # Undefined /\ ~validateDataType(value, f.data_type)
Fails(f, req) ==
  IF req.method = "POST" THEN FailsCreate(f, req.body) ELSE FailsUpdate(f, req.body)
\* the positions in the field list of the fields of the request that fail
Failing(req) ==
  {i \in FieldList(OwnEndpoint(req).endpoint_id) : Fails(fields[i], req)}
IsFirstFailing(i, req) ==
  i \in Failing(req) /\ \A j \in Failing(req) : i <= j
\* the message the code sends for a failing field
FailureMessage(f, req) ==
  IF req.method = "POST" /\ f.is_required
       /\ Get(req.body, f.field_name) \in {Undefined, Null, Str("")}
  THEN FieldRequired(f.field_name)
  ELSE InvalidDataType(f.field_name, f.data_type)

IsCreate ==
  /\ Answered
  /\ last.req.method = "POST"
  /\ OwnEndpoints(last.req) # {}
\* the positions of the required fields whose body value is absent, null or
\* the empty string
RequiredMissing(req) ==
  {i \in FieldList(OwnEndpoint(req).endpoint_id) :
     /\ fields[i].is_required
     /\ Get(req.body, fields[i].field_name) \in {Undefined, Null, Str("")}}

\* C4 as claimed: a POST with a required field whose body value is absent,
\* null or the empty string is answered 400 with a message naming that field
\* and stores no document.
C4_AsClaimed ==
  IsCreate =>
    \A i \in RequiredMissing(last.req) :
      /\ last.status = 400
      /\ last.message = FieldRequired(fields[i].field_name)
      /\ StoreUntouched

\* C4 (amended): a POST with a required field whose body value is absent,
\* null or the empty string is answered 400 and stores no document, whatever
\* the field's declared type; the message names that field when no field
\* earlier in the field list fails.
C4_RequiredOnCreate ==
  IsCreate =>
    \A i \in RequiredMissing(last.req) :
      /\ last.status = 400
      /\ StoreUntouched
      /\ IsFirstFailing(i, last.req) =>
           last.message = FieldRequired(fields[i].field_name)

\* a required field sent as the empty string is refused although the field
\* has a default
C4_Witness ==
  /\ IsCreate
  /\ last.status = 400
  /\ \E i \in RequiredMissing(last.req) :
       /\ last.message = FieldRequired(fields[i].field_name)
       /\ Get(last.req.body, fields[i].field_name) = Str("")
       /\ fields[i].default_value # Null

\* C8: a POST or PUT answered 400 for a field reports the first field of the
\* field list that fails, and only that one, and leaves table data_storage
\* as it was: no document inserted, no field of the body written.
C8_FailFast ==
  /\ Answered
  /\ last.req.method \in {"POST", "PUT"}
  /\ OwnEndpoints(last.req) # {}
  /\ last.status = 400
  /\ last.message.text \in ValidationTexts
  => /\ StoreUntouched
     /\ \E i \in Failing(last.req) :
          /\ IsFirstFailing(i, last.req)
          /\ last.message = FailureMessage(fields[i], last.req)

\* a PUT refused for its second field, whose first field was valid and
\* differs from what the document holds
C8_Witness ==
  /\ Answered
  /\ last.req.method = "PUT"
  /\ last.status = 400
  /\ \E i, j \in FieldList(OwnEndpoint(last.req).endpoint_id), d \in DOMAIN data_storage :
       /\ i < j
       /\ last.message.field = fields[j].field_name
       /\ fields[i].field_name \in DOMAIN last.req.body
       /\ IdMatches(d, last.req.id)
       /\ data_storage[d].endpoint_id = OwnEndpoint(last.req).endpoint_id
       /\ Get(Payload(data_storage, d), fields[i].field_name)
            # last.req.body[fields[i].field_name]

\* the rows of the table that the id of the request names in the endpoint
\* of the request
Named(table, req) ==
  {i \in DOMAIN table :
     /\ ToNumber(req.id) = Num(i * 10)
     /\ table[i].endpoint_id = OwnEndpoint(req).endpoint_id}
\* a step in which the handler of a PUT or DELETE looks the id up and answers
AnswersLookup ==
  /\ last' # last
  /\ last' # NoResponse
  /\ updating' = updating
  /\ last'.req.method \in {"PUT", "DELETE"}
  /\ OwnEndpoints(last'.req) # {}
  /\ last'.req.id # Undefined

\* C10: a PUT or DELETE whose id names no document of its endpoint (no such
\* document, or a document of another endpoint or of another user's
\* endpoint) is answered 404 and leaves every document as it was; it does
\* not go on to its UPDATE, and a PUT is answered 200 only after an UPDATE
\* it went on to.
C10_UnknownDocument404 ==
  [][/\ AnswersLookup /\ Named(data_storage, last'.req) = {} =>
          /\ last'.status = 404
          /\ last'.message = Message("Data not found.")
          /\ data_storage' = data_storage
     /\ \A u \in updating' \ updating : Named(data_storage, u.req) # {}
     /\ last' # last /\ last'.req.method = "PUT" /\ last'.status = 200 =>
          \E u \in updating \ updating' : u.req = last'.req
    ]_vars

\* a PUT answered 404 for the id of a document of another endpoint
C10_Witness ==
  /\ last.req.method = "PUT"
  /\ last.status = 404
  /\ OwnEndpoints(last.req) # {}
  /\ \E i \in DOMAIN data_storage :
       /\ IdMatches(i, last.req.id)
       /\ data_storage[i].endpoint_id # OwnEndpoint(last.req).endpoint_id

\* C6: when the UPDATE of a PUT rewrites document d and the PUT is answered
\* 200, d holds the body's value for every declared field the body gives and,
\* for every other key, what the PUT read from d, no key more and none less;
\* no PUT is refused for a required field its body omits.
C6_PartialUpdate ==
  [][/\ \A u \in updating \ updating' :
          \A i \in Named(data_storage, u.req) :
            LET before == JSONParse(u.selected)
                after == Payload(data_storage', i)
                given == DOMAIN u.req.body \cap Declared(u.endpoint_id)
            IN /\ last'.status = 200
               /\ \A k \in given : Get(after, k) = u.req.body[k]
               /\ \A k \in DOMAIN before \ given : Get(after, k) = before[k]
               /\ DOMAIN after = DOMAIN before \cup given
     /\ last'.req.method = "PUT" => last'.message.text # "Field is required."
    ]_vars

\* a PUT answered 200 whose body omits a required field and changes another
\* field of the document
C6_Witness ==
  /\ last.req.method = "PUT"
  /\ last.status = 200
  /\ \E i \in Named(data_storage, last.req) :
       /\ data_storage[i] # last.before[i]
       /\ \E j \in FieldList(data_storage[i].endpoint_id) :
            /\ fields[j].is_required
            /\ fields[j].field_name \notin DOMAIN last.req.body
            /\ fields[j].field_name \in DOMAIN data_storage[i].data

\* The normalized form of a value of a declared type: the number for INT and
\* FLOAT, the boolean for BOOLEAN, the value itself otherwise
NormalizedForm(value, data_type) ==
  LET ty == ToUpperCase(data_type) IN
  CASE ty = "INT" /\ ~IsNaN(ToNumber(value)) -> ToNumber(value)
    [] ty = "FLOAT" /\ ~IsNaN(ParseFloat(value)) -> ParseFloat(value)
    [] ty = "BOOLEAN" /\ value \in {Str("true"), Bool(TRUE)} -> Bool(TRUE)
    [] ty = "BOOLEAN" /\ value \in {Str("false"), Bool(FALSE)} -> Bool(FALSE)
    [] OTHER -> value

\* a GET that follows, on the same endpoint, a POST answered 201 that found
\* the endpoint without documents
ReadsBackCreate ==
  /\ IsCreate201
  /\ RowsOf(last.before, OwnEndpoint(last.req).endpoint_id) = {}
  /\ last'.req.method = "GET"
  /\ last'.req.user_id = last.req.user_id
  /\ last'.req.endpoint_name = last.req.endpoint_name
\* the record that GET returns carries the identity the store gave the
\* document and, for the declared fields in supplied, the body's value in
\* normalized form
ReadBack(supplied) ==
  /\ last'.status = 200
  /\ Cardinality(DOMAIN last'.rows) = 1
  /\ \A r \in DOMAIN last'.rows :
       /\ "data_id" \in DOMAIN last'.rows[r]
       /\ Identity(last'.rows[r]) = Num(Created * 10)
       /\ \A i \in FieldList(OwnEndpoint(last.req).endpoint_id) :
            LET f == fields[i] IN
            f.field_name \in supplied =>
              /\ f.field_name \in DOMAIN last'.rows[r]
              /\ NormalizedForm(last'.rows[r][f.field_name], f.data_type)
                   = NormalizedForm(last.req.body[f.field_name], f.data_type)

OwnerOf(endpoint_id) ==
  (CHOOSE e \in api_endpoints : e.endpoint_id = endpoint_id).user_id

\* C11: a GET on an endpoint of the requesting user returns one record for
\* every document stored for that endpoint, with the document's payload, and
\* none for a document of another endpoint; no answered request has changed
\* or removed a document of an endpoint of another owner, and every PUT on
\* its way to its UPDATE has read a document of an endpoint of its own user.
C11_ScopedByEndpoint ==
  /\ Answered /\ OwnEndpoints(last.req) # {} /\ last.req.method = "GET" =>
       /\ DOMAIN last.rows = RowsOf(last.before, OwnEndpoint(last.req).endpoint_id)
       /\ \A i \in DOMAIN last.rows :
            \A k \in DOMAIN last.before[i].data :
              Get(last.rows[i], k) = Payload(last.before, i)[k]
  /\ Answered =>
       \A i \in DOMAIN last.before :
         OwnerOf(last.before[i].endpoint_id) # last.req.user_id =>
           /\ i \in DOMAIN data_storage
           /\ data_storage[i] = last.before[i]
  /\ \A u \in updating : OwnerOf(u.endpoint_id) = u.req.user_id

\* a GET that returns the document of its own endpoint while the table also
\* holds a document of the endpoint another owner has under the same name
C11_Witness ==
  /\ last.req.method = "GET"
  /\ last.status = 200
  /\ Cardinality(DOMAIN last.rows) = 1
  /\ \E i \in DOMAIN data_storage :
       /\ OwnerOf(data_storage[i].endpoint_id) # last.req.user_id
       /\ \E e \in api_endpoints :
            /\ e.endpoint_id = data_storage[i].endpoint_id
            /\ e.endpoint_name = last.req.endpoint_name

\* C12: a PUT or DELETE on an endpoint of the requesting user that carries
\* no id is answered 400 with the message that asks for the id and leaves
\* table data_storage as it was; it does not go on to an UPDATE.
C12_MissingId400 ==
  /\ Answered /\ OwnEndpoints(last.req) # {}
       /\ last.req.method \in {"PUT", "DELETE"} /\ last.req.id = Undefined =>
       /\ last.status = 400
       /\ last.message =
            IF last.req.method = "PUT"
            THEN Message("Data ID is required for update.")
            ELSE Message("Data ID is required for deletion.")
       /\ StoreUntouched
  /\ \A u \in updating : u.req.id # Undefined

\* a DELETE without an id, answered while the endpoint has a document
C12_Witness ==
  /\ last.req.method = "DELETE"
  /\ last.req.id = Undefined
  /\ last.status = 400
  /\ RowsOf(data_storage, OwnEndpoint(last.req).endpoint_id) # {}

\* C13: the UPDATE of a PUT takes no notice of what was written to the row
\* since the PUT's SELECT: it is answered 200 and leaves the row holding the
\* payload the PUT merged from what it read, so that of two PUTs in flight
\* on one document both are answered 200 and the change of the one that
\* writes first is lost; a row's data changes only by such an UPDATE.
C13_LastWriteWins ==
  [][/\ \A u \in updating \ updating' :
          /\ last'.req = u.req
          /\ last'.status = 200
          /\ \A i \in Named(data_storage, u.req) :
               data_storage'[i].data = JSONStringify(u.existingData)
     /\ \A i \in DOMAIN data_storage \cap DOMAIN data_storage' :
          data_storage'[i] # data_storage[i] =>
            /\ last'.req.method = "PUT"
            /\ last'.status = 200
            /\ i \in Named(data_storage, last'.req)
    ]_vars

\* a PUT answered 200 whose UPDATE has put back the value it read for a field
\* its body does not give, undoing the change another PUT made to that field
\* in between; the field its body gives holds the body's value
C13_Witness ==
  /\ last.req.method = "PUT"
  /\ last.status = 200
  /\ \E i \in Named(last.before, last.req) :
       \E k, j \in DOMAIN data_storage[i].data :
         /\ k \notin DOMAIN last.req.body
         /\ k \in DOMAIN last.before[i].data
         /\ last.before[i].data[k] # data_storage[i].data[k]
         /\ j \in DOMAIN last.req.body
         /\ Payload(data_storage, i)[j] = last.req.body[j]
         /\ Payload(last.before, i)[j] # last.req.body[j]

\* the rows a POST answered 201 or a PUT answered 200 has written
Written ==
  IF last.req.method = "POST" THEN DOMAIN data_storage \ DOMAIN last.before
  ELSE Named(data_storage, last.req)
\* the boolean a BOOLEAN field's text "true" or "false" stands for
BooleanOf(value) == Bool(value = Str("true"))

\* C17: after a POST answered 201 or a PUT answered 200, every BOOLEAN field
\* for which the body gave "true" or "false" is stored in the row written,
\* and so read back, as the boolean true or false, not as the string.
C17_BooleanStoredNormalized ==
  /\ Answered
  /\ OwnEndpoints(last.req) # {}
  /\ \/ last.req.method = "POST" /\ last.status = 201
     \/ last.req.method = "PUT" /\ last.status = 200
  => \A j \in FieldList(OwnEndpoint(last.req).endpoint_id) :
       LET value == Get(last.req.body, fields[j].field_name) IN
       /\ ToUpperCase(fields[j].data_type) = "BOOLEAN"
       /\ value \in {Str("true"), Str("false")}
       => \A i \in Written :
            /\ Get(Payload(data_storage, i), fields[j].field_name) = BooleanOf(value)
            /\ Get(ReadRows(data_storage, data_storage[i].endpoint_id)[i],
                   fields[j].field_name) = BooleanOf(value)

\* C18: whenever a PUT is answered 200, the document its id names is in
\* table data_storage and holds the body's value for every declared field
\* the body gives; a PUT whose SELECT ran before a DELETE removed the
\* document is not answered 200.
C18_UpdateAtomic ==
  /\ Answered
  /\ last.req.method = "PUT"
  /\ last.status = 200
  => \E i \in Named(data_storage, last.req) :
       \A k \in DOMAIN last.req.body \cap Declared(data_storage[i].endpoint_id) :
         Get(Payload(data_storage, i), k) = last.req.body[k]

\* C16: in every record a GET returns, the identity field holds the data_id
\* of the document's row, also when the document's payload has a key of
\* that name.
C16_IdentityPrecedence ==
  Answered /\ last.req.method = "GET" /\ last.status = 200 =>
    \A i \in DOMAIN last.rows : Identity(last.rows[i]) = Num(i * 10)

\* the seven declared types, by the upper-case form of the tag
DeclaredTypes ==
  {"INT", "FLOAT", "VARCHAR", "TEXT", "BOOLEAN", "DATE", "DATETIME"}
\* a number, or a string that is the decimal text of a number
IsNumeric(value) ==
  \/ value.t = "number" /\ value.s = ""
  \/ value.t = "string" /\ \E d \in DecimalLiterals : d[1] = value.s
\* the number a numeric value reads as, in tenths
NumericValue(value) ==
  IF value.t = "number" THEN value.n
  ELSE (CHOOSE d \in DecimalLiterals : d[1] = value.s)[2]
\* the verdict the declared rules give for a value and a type tag
RuleAccepts(value, data_type) ==
  LET ty == ToUpperCase(data_type) IN
  CASE ty = "INT" -> IsNumeric(value) /\ NumericValue(value) % 10 = 0
    [] ty = "BOOLEAN" ->
         value \in {Bool(TRUE), Bool(FALSE), Str("true"), Str("false")}
    [] ty \in {"VARCHAR", "TEXT"} -> value.t = "string"
    [] OTHER -> FALSE
\* the types the claim gives a rule for
HasRule(data_type) ==
  ToUpperCase(data_type) \in {"INT", "BOOLEAN", "VARCHAR", "TEXT"}
    \/ ToUpperCase(data_type) \notin DeclaredTypes

\* C14: validateDataType returns what the declared rules say, for every
\* value and type tag: INT accepts the numbers without a fractional part and
\* the strings that are the text of one; BOOLEAN accepts true, false, "true"
\* and "false"; VARCHAR and TEXT accept the strings; a tag outside the seven
\* declared types accepts nothing, and a POST or PUT that gives a value for
\* a field of such a type is answered 400.
C14_ValidatorRules ==
  call.state = "returned" =>
    /\ call.op = "validateDataType" /\ HasRule(call.data_type) =>
         call.accepted = RuleAccepts(call.value, call.data_type)
    /\ /\ call.op \in {"handleCreate", "handleUpdate"}
       /\ ToUpperCase(call.data_type) \notin DeclaredTypes
       /\ ~Missing(call.value)
       => call.status = 400

\* C15: in the step in which a storage call of a request throws (the SELECT
\* on api_endpoints or on fields, or the SELECT, INSERT, UPDATE or DELETE on
\* data_storage), the request is answered 500 with the message 'Server
\* error.' and nothing else, and table data_storage stays as it was; the
\* call is not made again: the request makes no further step but to end.
C15_StorageError500 ==
  [][\A s \in Slots :
       /\ requests[s].failed = "" /\ requests'[s].failed # "" =>
            /\ requests'[s].failed = requests[s].at
            /\ requests'[s].state = "Responding"
            /\ requests'[s].sent = 1
            /\ requests'[s].status = 500
            /\ last' = Response(requests[s].req, 500, Message("Server error."),
                                NoRows, data_storage)
            /\ data_storage' = data_storage
            /\ \A u \in updating' : u.req # requests[s].req
       /\ requests[s].failed # "" => requests'[s] \in {requests[s], NoSlot}
    ]_vars

\* a PUT answered 500 because its UPDATE threw, the document still in the
\* table as the PUT's SELECT found it
C15_Witness ==
  \E s \in Slots :
    /\ requests[s].failed = "update"
    /\ requests[s].status = 500
    /\ last.req = requests[s].req
    /\ Named(data_storage, requests[s].req) # {}
    /\ requests[s].req.body # EmptyObject
    /\ \A i \in Named(data_storage, requests[s].req) :
         \E k \in DOMAIN requests[s].req.body :
           Get(Payload(data_storage, i), k) # requests[s].req.body[k]

\* the states of the dispatcher's state machine that run an operation
Operating == {"Creating", "Reading", "Updating", "Deleting"}
\* the paths a request takes through the state machine
Paths ==
  {<<"Resolving">>, <<"Resolving", "Responding">>}
    \cup {<<"Resolving", o>> : o \in Operating}
    \cup {<<"Resolving", o, "Responding">> : o \in Operating}
\* the request in slot s is in progress and not yet answered
InProgress(s) == requests[s].state \in {"Resolving"} \cup Operating
\* the request in slot s is in Responding and has sent exactly one response
Answers(s) == requests[s].state = "Responding" /\ requests[s].sent = 1

\* C19: every request starts in Resolving, enters at most one of Creating,
\* Reading, Updating and Deleting, the one of its verb and only on an
\* endpoint that resolved, and then Responding; it has sent one response
\* when it is in Responding and none before; and every request in progress
\* reaches Responding, whether its storage calls return or throw.
C19_RequestStateMachine ==
  /\ [](\A s \in Slots :
          /\ requests[s] # NoSlot =>
               /\ requests[s].visited \in Paths
               /\ requests[s].state = requests[s].visited[Len(requests[s].visited)]
          /\ requests[s].sent = IF requests[s].state = "Responding" THEN 1 ELSE 0
          /\ requests[s].state \in Operating =>
               /\ ~Unresolved(requests[s].req)
               /\ requests[s].state
                    = StateOf(Operation(requests[s].req.method, Endpoint(requests[s].req))))
  /\ \A s \in Slots : InProgress(s) ~> Answers(s)

\* a POST answered 400 from Creating for a field of its body, while another
\* request is in Responding after a storage call of its operation threw
C19_Witness ==
  \E s, o \in Slots :
    /\ requests[s].visited = <<"Resolving", "Creating", "Responding">>
    /\ requests[s].status = 400
    /\ requests[s].failed = ""
    /\ requests[o].visited = <<"Resolving", "Updating", "Responding">>
    /\ requests[o].failed = "update"
    /\ requests[o].sent = 1

\* the operations of the administrative API that take the id of an endpoint
\* or of a field of an endpoint
ById ==
  {"getEndpointById", "updateEndpoint", "deleteEndpoint", "addFields",
   "getFields", "updateField", "deleteField"}
OnField == {"updateField", "deleteField"}
\* the owners of an endpoint in the tables
OwnersOf(tables, endpoint_id) ==
  {e.user_id : e \in {x \in tables.api_endpoints : x.endpoint_id = endpoint_id}}
\* the endpoint and field definitions in the tables of owners other than the
\* user
OfOthers(tables, user_id) ==
  [api_endpoints |-> {e \in tables.api_endpoints : e.user_id # user_id},
   fields |-> {f \in tables.fields :
                 OwnersOf(tables, f.endpoint_id) \ {user_id} # {}}]
\* the request carries the id of an endpoint, or of a field of an endpoint,
\* of an owner other than its user
CrossOwner(tables, req) ==
  /\ req.op \in ById
  /\ \/ OwnersOf(tables, req.id) \ {req.user_id} # {}
     \/ /\ req.op \in OnField
        /\ \E f \in tables.fields :
             /\ f.field_id = req.fieldId
             /\ OwnersOf(tables, f.endpoint_id) \ {req.user_id} # {}
\* the check of the body the handler of the request makes before its first
\* statement fails
BodyRefused(req) ==
  CASE req.op = "updateEndpoint" -> updateEndpointRefusal(req) # ""
    [] req.op = "addFields" -> addFieldsRefusal(req) # ""
    [] req.op = "updateField" -> updateFieldRefusal(req) # ""
    [] OTHER -> FALSE
\* a step in which a handler responds
AdminResponds == admin'.last # admin.last /\ admin'.last # NoAdminResponse
\* the requests whose handlers run a statement in a step
Acting ==
  {c.req : c \in admin'.calls \ admin.calls}
    \cup (IF AdminResponds THEN {admin'.last.req} ELSE {})
\* a step of the handlers of a user leaves the definitions of the other
\* owners as they were, and no handler goes on to its second statement with
\* the id of another owner's endpoint or field
OthersUntouched ==
  /\ \A req \in Acting : OfOthers(admin, req.user_id) = OfOthers(admin', req.user_id)
  /\ \A c \in admin'.calls \ admin.calls : ~CrossOwner(admin, c.req)

\* C20 as claimed: every such request under owner B with an id of owner A is
\* answered 404.
C20_AsClaimed ==
  [][/\ OthersUntouched
     /\ AdminResponds /\ CrossOwner(admin, admin'.last.req) =>
          admin'.last.status = 404 /\ admin'.last.rows = {}
    ]_vars

\* C20 (amended): getEndpointById, updateEndpoint, deleteEndpoint, addFields,
\* getFields, updateField and deleteField, called under owner B with the id
\* of an endpoint (or of a field of an endpoint) owned by a different owner
\* A, return none of A's definitions and leave A's endpoint and field
\* definitions unchanged, under any interleaving with A's own requests; they
\* end with 404, except that updateEndpoint, addFields and updateField end
\* with 400 when the body fails the check these handlers make before they
\* look the id up.
C20_OwnershipScoping ==
  [][/\ OthersUntouched
     /\ AdminResponds /\ CrossOwner(admin, admin'.last.req) =>
          /\ admin'.last.status = IF BodyRefused(admin'.last.req) THEN 400 ELSE 404
          /\ admin'.last.rows = {}
    ]_vars

\* updateField under one owner, with a valid body and the ids of an endpoint
\* and of a field of another owner, answered 404 while a request of that
\* owner is between two statements
C20_Witness ==
  /\ admin.last.status = 404
  /\ admin.last.req.op = "updateField"
  /\ ~BodyRefused(admin.last.req)
  /\ \E e \in admin.api_endpoints, f \in admin.fields :
       /\ e.user_id # admin.last.req.user_id
       /\ e.endpoint_id = admin.last.req.id
       /\ f.endpoint_id = e.endpoint_id
       /\ f.field_id = admin.last.req.fieldId
       /\ \E c \in admin.calls : c.req.user_id = e.user_id

\* the positions in the field list of the required fields of an endpoint
RequiredFields(endpoint_id) ==
  {i \in FieldList(endpoint_id) : fields[i].is_required}

\* C21: every stored document holds, for each field its endpoint declares
\* required, a value that is present, not null and not the empty string,
\* after any sequence of POST, PUT and DELETE requests.
C21_RequiredHeld ==
  \A i \in DOMAIN data_storage :
    \A j \in RequiredFields(data_storage[i].endpoint_id) :
      Get(Payload(data_storage, i), fields[j].field_name)
        \notin {Undefined, Null, Str("")}

\* the identities ever given to a document
Used == DOMAIN data_storage \cup {d[2] : d \in deleted}
\* a step in which a request of the verb to endpoint e is answered status
AnswersOn(e, method, status) ==
  /\ last' # last
  /\ last'.req.method = method
  /\ last'.status = status
  /\ OwnEndpoints(last'.req) # {}
  /\ OwnEndpoint(last'.req).endpoint_id = e

\* C22: the set of document identities of an endpoint changes only when a
\* POST is answered 201, which adds exactly one identity that no document
\* had before, and when a DELETE is answered 200, which removes exactly the
\* identity it names; no other step (GET, PUT answered or between its SELECT
\* and its UPDATE, whatever DELETE ran in between) adds or removes one.
C22_IdentityFrame ==
  [][\A e \in {x.endpoint_id : x \in api_endpoints} :
       LET before == RowsOf(data_storage, e)
           after == RowsOf(data_storage', e)
       IN /\ AnswersOn(e, "POST", 201) =>
               \E i \in after : i \notin Used /\ after = before \cup {i}
          /\ AnswersOn(e, "DELETE", 200) =>
               \E i \in before :
                 IdMatches(i, last'.req.id) /\ after = before \ {i}
          /\ ~AnswersOn(e, "POST", 201) /\ ~AnswersOn(e, "DELETE", 200) =>
               after = before
    ]_vars

\* a PUT answered 200 whose document a DELETE removed between the SELECT and
\* the UPDATE of the PUT, with the document still not in the table
C22_Witness ==
  /\ last.req.method = "PUT"
  /\ last.status = 200
  /\ OwnEndpoints(last.req) # {}
  /\ \E d \in deleted :
       /\ d[1] = OwnEndpoint(last.req).endpoint_id
       /\ IdMatches(d[2], last.req.id)
       /\ d[2] \notin DOMAIN data_storage

\* a step in which addFields answers the request of call c
AddFieldsAnswers(c) ==
  /\ c.req.op = "addFields"
  /\ AdminResponds
  /\ admin'.last.req = c.req
\* the rows the INSERTs of call c have stored, after a step of c
StoredBy(c) ==
  {f \in admin'.fields : f.field_id \in c.inserted}
    \cup (admin'.fields \ admin.fields)

\* C23: a request to add several fields either stores all of them and is
\* answered 201, or is answered with an error and stores none of them: when
\* addFields answers 400 or 404 table fields is as it was, when it answers
\* 201 every INSERT has stored its row, when it answers 409 no row of the
\* request is stored, and no INSERT of the request stores a row after one of
\* them has failed.
C23_AddFieldsAllOrNothing ==
  [][/\ AdminResponds /\ admin'.last.req.op = "addFields"
          /\ admin'.last.status \in {400, 404}
        => admin'.fields = admin.fields
     /\ \A c \in admin.calls :
          /\ AddFieldsAnswers(c) /\ admin'.last.status = 201 =>
               Cardinality(c.inserted \cup
                             {f.field_id : f \in admin'.fields \ admin.fields})
                 = Len(c.req.fields)
          /\ AddFieldsAnswers(c) /\ admin'.last.status # 201 => StoredBy(c) = {}
          /\ c.req.op = "addFields" /\ c.rejected =>
               admin'.fields \ admin.fields = {}
    ]_vars

=============================================================================
